---- MODULE Spec2Model ----
(***************************************************************************)
(* Document lifecycle of notepad-lite: the three tkinter editors           *)
(* (src/Windows.py, src/linux.py, src/macos.py) and their unsaved-changes  *)
(* gate, new/open/save/save-as/exit handlers, and the file system they     *)
(* read and write.                                                         *)
(*                                                                         *)
(* A text is a sequence of Unicode code points, a file a sequence of       *)
(* bytes.  `text` is the content of the tk.Text widget without the final   *)
(* newline the widget always keeps; text.get(1.0, tk.END) returns it with  *)
(* that newline (text_get).                                                *)
(***************************************************************************)
EXTENDS Integers, Sequences, FiniteSets, TLC

\* ------------------------------------------------------------------ bounds
\* Number of user actions (edits and commands) in one run of the program.
MaxSteps == 4

\* Length of the files found on disk when the encoding probe is explored.
MaxFileLen == 2

\* Length of the buffers the code formatter is explored on.
MaxTextLen == 5

\* --------------------------------------------------------------- constants
None == "<None>"          \* Python's None (current_file of an unsaved buffer)
NoPath == ""              \* what a cancelled file dialog returns
Missing == <<-1>>         \* a path with no file behind it

LF == 10
CR == 13

PathA == "/tmp/a.txt"
PathB == "/tmp/bad.bin"
Paths == {PathA, PathB}
\* self.recent_files_file (Linux)
RecentFilesFile == "recent_files.txt"

Variants == {"Windows", "Linux", "macOS"}

\* "hello"
Hello == <<104, 101, 108, 108, 111>>
\* What the user may type or paste in one edit: "hello", or e-acute and a
\* carriage return.
TypedTexts == {Hello, <<233, CR>>}

\* What /tmp/bad.bin holds when the editor starts: a byte that is invalid as
\* UTF-8 and undefined in cp1251 (latin-1 decodes it).
InitialFiles == {<<152>>}

\* The bytes of the files the encoding probe is explored on: "h", 0x98 (undefined
\* in cp1251), 0xC0 (never valid in UTF-8), and 0xC3 0xA9 (e-acute in UTF-8).
FileBytes == {104, 152, 192, 195, 169}
FileSamples == UNION {[1..n -> FileBytes] : n \in 0..MaxFileLen}

\* The characters of the buffers the code formatter is explored on: ':', '}',
\* a space, "a" and the newline.
FormatChars == {58, 125, 32, 97, LF}
FormatSamples == UNION {[1..n -> FormatChars] : n \in 0..MaxTextLen}

Responses == {"yes", "no", "cancel"}
WriteOutcomes == {"ok", "open_fails", "write_fails"}

VARIABLES
    variant,        \* which of the three programs runs
    text,           \* self.text content (without the widget's final newline)
    current_file,   \* self.current_file
    modified,       \* self.text.edit_modified()
    fs,             \* the file system: path -> bytes, or Missing
    recent_files,   \* Linux: self.recent_files
    recent_disk,    \* Linux: the lines of recent_files.txt
    menu_recent,    \* Linux: the paths the Recent Files menu was built with
    alive,          \* the main loop runs (root.quit() not yet called)
    persisted,      \* the buffer content last loaded from or saved to storage
    encoding_label, \* Linux: the text of self.encoding_label
    line_numbers,   \* Linux: the numbers shown in self.line_numbers (the gutter)
    font,           \* self.text['font']: family and size
    steps,          \* user actions so far
    last,           \* what the last handler did
    prev            \* the successful save made by the handler before it, if any

vars == <<variant, text, current_file, modified, fs, recent_files, recent_disk,
          menu_recent, alive, persisted, encoding_label, line_numbers, font,
          steps, last, prev>>

\* ------------------------------------------------------------------ codecs
\* The platform's line separator, os.linesep, which open(path, 'w') writes for
\* every '\n': CRLF on the platform Windows.py targets, LF on the other two.
os_linesep(v) == IF v = "Windows" THEN <<CR, LF>> ELSE <<LF>>

RECURSIVE translate_write(_, _)
\* Text-mode write (newline=None): each '\n' becomes os.linesep.
translate_write(t, sep) ==
    IF t = <<>> THEN <<>>
    ELSE (IF Head(t) = LF THEN sep ELSE <<Head(t)>>) \o translate_write(Tail(t), sep)

RECURSIVE translate_read(_)
\* Text-mode read (universal newlines): "\r\n" and a lone "\r" become "\n".
translate_read(t) ==
    IF t = <<>> THEN <<>>
    ELSE IF Head(t) = CR
         THEN IF Len(t) >= 2 /\ t[2] = LF
              THEN <<LF>> \o translate_read(Tail(Tail(t)))
              ELSE <<LF>> \o translate_read(Tail(t))
         ELSE <<Head(t)>> \o translate_read(Tail(t))

RECURSIVE utf8_encode(_)
\* encoding='utf-8' on write, for code points below U+0800 (one or two bytes).
utf8_encode(t) ==
    IF t = <<>> THEN <<>>
    ELSE (IF Head(t) < 128 THEN <<Head(t)>>
          ELSE <<192 + (Head(t) \div 64), 128 + (Head(t) % 64)>>)
         \o utf8_encode(Tail(t))

RECURSIVE utf8_valid(_)
\* Whether bytes decode as UTF-8 (one- and two-byte forms; lead bytes 0xC2..0xDF,
\* continuation bytes 0x80..0xBF; anything else raises UnicodeDecodeError).
utf8_valid(b) ==
    IF b = <<>> THEN TRUE
    ELSE IF Head(b) < 128 THEN utf8_valid(Tail(b))
    ELSE IF Head(b) >= 194 /\ Head(b) <= 223 /\ Len(b) >= 2
            /\ b[2] >= 128 /\ b[2] <= 191
         THEN utf8_valid(Tail(Tail(b)))
         ELSE FALSE

RECURSIVE utf8_decode(_)
utf8_decode(b) ==
    IF b = <<>> THEN <<>>
    ELSE IF Head(b) < 128 THEN <<Head(b)>> \o utf8_decode(Tail(b))
    ELSE <<(Head(b) - 192) * 64 + (b[2] - 128)>> \o utf8_decode(Tail(Tail(b)))

\* cp1251: ASCII as is, 0xC0..0xFF are U+0410..U+044F, 0x98 is undefined; of the
\* other high bytes only 0xA0 and 0xA9 (mapped to themselves) occur here.
cp1251_valid(b) == \A i \in DOMAIN b : b[i] # 152
cp1251_decode(b) ==
    [i \in DOMAIN b |-> IF b[i] >= 192 THEN 1040 + (b[i] - 192) ELSE b[i]]

\* latin-1 as it would be if it had an undefined byte, as cp1251 has.
latin1_valid_has_gap(b) == \A i \in DOMAIN b : b[i] # 152

\* iso-8859-1 / latin-1: byte n is code point n; every byte sequence decodes.
latin1_valid(b) == TRUE
latin1_decode(b) == [i \in DOMAIN b |-> b[i]]

can_decode(enc, b) ==
    CASE enc = "utf-8" -> utf8_valid(b)
      [] enc = "cp1251" -> cp1251_valid(b)
      [] OTHER -> latin1_valid(b)

decode(enc, b) ==
    CASE enc = "utf-8" -> utf8_decode(b)
      [] enc = "cp1251" -> cp1251_decode(b)
      [] OTHER -> latin1_decode(b)

\* What file.write(content) leaves in a file opened with 'w', encoding='utf-8'.
file_bytes(content, v) == utf8_encode(translate_write(content, os_linesep(v)))
\* What file.read() returns for a file opened with 'r', encoding=enc.
file_text(enc, b) == translate_read(decode(enc, b))

\* ------------------------------------------------- the state a handler runs on
\* A handler is an operator from a context (the program's state, with the log of
\* the collaborator calls made so far) and its inputs (what the user answers, what
\* the file system does) to the context it leaves.
NoGate ==
    [called |-> FALSE, ret |-> FALSE, text |-> <<>>, current_file |-> None,
     modified |-> FALSE, nev |-> 0]

Ctx ==
    [text |-> text, current_file |-> current_file, modified |-> modified,
     fs |-> fs, recent_files |-> recent_files, recent_disk |-> recent_disk,
     menu_recent |-> menu_recent, alive |-> alive, persisted |-> persisted,
     encoding_label |-> encoding_label, line_numbers |-> line_numbers,
     ev |-> <<>>, writes |-> <<>>, exc |-> FALSE, gate |-> NoGate]

\* A collaborator call (dialog, prompt, message box, file open) or an exception a
\* collaborator raised, in the order they happened.
Log(c, kind, arg) == [c EXCEPT !.ev = Append(@, <<kind, arg>>)]

\* ------------------------------------------------------------ the tk.Text widget
\* text.get(1.0, tk.END): the content and the widget's final newline.
text_get(c) == c.text \o <<LF>>

\* text.delete(1.0, tk.END): deleting a non-empty range sets the modified flag.
text_delete(c) ==
    IF c.text = <<>> THEN c ELSE [c EXCEPT !.text = <<>>, !.modified = TRUE]

\* text.insert(1.0, content): inserting a non-empty string sets the modified flag.
text_insert(c, content) ==
    IF content = <<>> THEN c
    ELSE [c EXCEPT !.text = content \o @, !.modified = TRUE]

\* content.count(ch)
str_count(t, ch) == Cardinality({i \in DOMAIN t : t[i] = ch})

\* LinuxNotepad.update_line_numbers: the gutter is emptied and filled with the
\* numbers of range(1, line_count + 2), that is 1 .. line_count + 1, where
\* line_count is the number of '\n' in text.get(1.0, tk.END).
update_line_numbers(c) ==
    LET line_count == str_count(text_get(c), LF) IN
    [c EXCEPT !.line_numbers = [line \in 1..(line_count + 1) |-> line]]

\* The <KeyRelease> binding of the Linux program's Text widget: typing refreshes
\* the gutter.  The other two programs have no gutter.
key_release(c) == IF variant = "Linux" THEN update_line_numbers(c) ELSE c

\* encoding.upper() for the names load_file uses
str_upper(enc) ==
    CASE enc = "utf-8" -> "UTF-8"
      [] enc = "cp1251" -> "CP1251"
      [] enc = "iso-8859-1" -> "ISO-8859-1"
      [] OTHER -> enc

\* text.edit_modified(flag)
edit_modified(c, flag) == [c EXCEPT !.modified = flag]

\* messagebox.showerror(...)
showerror(c) == Log([c EXCEPT !.exc = FALSE], "showerror", "")

\* ------------------------------------------------------------------- file I/O
\* with open(path, 'w', encoding='utf-8') as file: file.write(content)
\* open() may raise (nothing touched); the write may raise after open() has
\* truncated the file.  c.exc is the raised exception.
open_write(c, path, content, outcome) ==
    CASE outcome = "open_fails" -> [Log(c, "OSError", path) EXCEPT !.exc = TRUE]
      [] outcome = "write_fails" ->
            [Log(Log(c, "open_w", path), "OSError", path) EXCEPT
                !.fs[path] = <<>>, !.exc = TRUE]
      [] OTHER ->
            [Log(c, "open_w", path) EXCEPT
                !.fs[path] = file_bytes(content, variant),
                !.persisted = c.text,
                !.writes = Append(@, <<path, file_bytes(content, variant)>>)]

\* open(path, 'r') raises OSError for a missing or unreadable file.
can_open(c, path, in) == c.fs[path] # Missing /\ in.read_ok

\* with open(path, 'r', encoding=enc) as file: content = file.read()
\* The attempt is logged; c.exc is set when open() raised OSError or read()
\* raised UnicodeDecodeError.
open_read(c, path, enc, in) ==
    LET c1 == Log(c, "open_r", enc) IN
    IF ~can_open(c1, path, in) THEN [Log(c1, "OSError", path) EXCEPT !.exc = TRUE]
    ELSE IF ~can_decode(enc, c1.fs[path])
         THEN [Log(c1, "UnicodeDecodeError", enc) EXCEPT !.exc = TRUE]
         ELSE c1

\* ------------------------------------------------------- Linux: recent files
\* config['recent']['max_files'], default '10'
max_files == 10

RECURSIVE list_remove(_, _)
\* list.remove(x): drops the first occurrence.
list_remove(l, x) ==
    IF l = <<>> THEN <<>>
    ELSE IF Head(l) = x THEN Tail(l) ELSE <<Head(l)>> \o list_remove(Tail(l), x)

list_contains(l, x) == \E i \in DOMAIN l : l[i] = x

\* LinuxNotepad.add_to_recent_files: the list is updated in memory, then written
\* to recent_files.txt; when that open() raises, the file keeps its old lines.
add_to_recent_files(c, filepath, in) ==
    LET removed == IF list_contains(c.recent_files, filepath)
                   THEN list_remove(c.recent_files, filepath)
                   ELSE c.recent_files
        inserted == <<filepath>> \o removed
        limited == SubSeq(inserted, 1, IF Len(inserted) < max_files
                                       THEN Len(inserted) ELSE max_files)
        c1 == [c EXCEPT !.recent_files = limited]
    IN  IF in.recent_ok
        THEN [Log(c1, "open_w", RecentFilesFile) EXCEPT !.recent_disk = limited]
        ELSE [Log(c1, "OSError", RecentFilesFile) EXCEPT !.exc = TRUE]

\* ----------------------------------------------------------------- save
\* NotepadApp.save_as_file (Windows.py; macos.py is the same code)
save_as_file_generic(c, in) ==
    LET c1 == Log(c, "asksaveasfilename", in.save_path) IN
    IF in.save_path # NoPath
    THEN LET w == open_write(c1, in.save_path, text_get(c1), in.write) IN
         IF w.exc THEN showerror(w)
         ELSE edit_modified([w EXCEPT !.current_file = in.save_path], FALSE)
    ELSE c1

\* LinuxNotepad.save_as_file: as above, then add_to_recent_files inside the try.
save_as_file_linux(c, in) ==
    LET c1 == Log(c, "asksaveasfilename", in.save_path) IN
    IF in.save_path # NoPath
    THEN LET w == open_write(c1, in.save_path, text_get(c1), in.write) IN
         IF w.exc THEN showerror(w)
         ELSE LET c2 == edit_modified([w EXCEPT !.current_file = in.save_path], FALSE)
                  c3 == add_to_recent_files(c2, in.save_path, in)
              IN  IF c3.exc THEN showerror(c3) ELSE c3
    ELSE c1

\* save_as_file as it would be without `self.current_file = file_path`.
save_as_file_keeps_path(c, in) ==
    LET c1 == Log(c, "asksaveasfilename", in.save_path) IN
    IF in.save_path # NoPath
    THEN LET w == open_write(c1, in.save_path, text_get(c1), in.write) IN
         IF w.exc THEN showerror(w) ELSE edit_modified(w, FALSE)
    ELSE c1

\* save_as_file as it would be if a dismissed chooser counted as a save.
save_as_file_cancel_is_saved(c, in) ==
    IF in.save_path = NoPath
    THEN edit_modified(Log(c, "asksaveasfilename", in.save_path), FALSE)
    ELSE IF variant = "Linux" THEN save_as_file_linux(c, in)
         ELSE save_as_file_generic(c, in)

save_as_file(c, in) ==
    IF variant = "Linux" THEN save_as_file_linux(c, in) ELSE save_as_file_generic(c, in)

\* save_file as it would be without text.edit_modified(False) after the write.
save_file_keeps_flag(c, in) ==
    IF c.current_file # None
    THEN LET w == open_write(c, c.current_file, text_get(c), in.write) IN
         IF w.exc THEN showerror(w) ELSE w
    ELSE save_as_file(c, in)

\* save_file as it would be if its except branch also reset the modified flag.
save_file_clears_on_error(c, in) ==
    IF c.current_file # None
    THEN LET w == open_write(c, c.current_file, text_get(c), in.write) IN
         IF w.exc THEN edit_modified(showerror(w), FALSE) ELSE edit_modified(w, FALSE)
    ELSE save_as_file(c, in)

\* save_file (the same code in the three programs)
save_file(c, in) ==
    IF c.current_file # None
    THEN LET w == open_write(c, c.current_file, text_get(c), in.write) IN
         IF w.exc THEN showerror(w) ELSE edit_modified(w, FALSE)
    ELSE save_as_file(c, in)

\* ----------------------------------------------------------------- the gate
\* What check_unsaved_changes returned, and the state it returned in.
Return(c, r) ==
    [c EXCEPT !.gate = [called |-> TRUE, ret |-> r, text |-> c.text,
                        current_file |-> c.current_file, modified |-> c.modified,
                        nev |-> Len(c.ev)]]

\* The gate as it would be without its test of the modified flag.
check_unsaved_changes_always_prompts(c, in) ==
    LET c1 == Log(c, "askyesnocancel", in.response) IN
    IF in.response = "cancel" THEN Return(c1, FALSE)
    ELSE IF in.response = "yes"
         THEN LET c2 == save_file(c1, in) IN Return(c2, ~c2.modified)
         ELSE Return(edit_modified(c1, FALSE), TRUE)

\* The gate as it would be with the prompt's answer read as a boolean: Cancel
\* (None) taken for No.
check_unsaved_changes_cancel_as_no(c, in) ==
    IF c.modified
    THEN LET c1 == Log(c, "askyesnocancel", in.response) IN
         IF in.response = "yes"
         THEN LET c2 == save_file(c1, in) IN Return(c2, ~c2.modified)
         ELSE Return(edit_modified(c1, FALSE), TRUE)
    ELSE Return(c, TRUE)

\* The gate as it would be if the No branch did not reset the modified flag.
check_unsaved_changes_no_keeps_flag(c, in) ==
    IF c.modified
    THEN LET c1 == Log(c, "askyesnocancel", in.response) IN
         IF in.response = "cancel" THEN Return(c1, FALSE)
         ELSE IF in.response = "yes"
              THEN LET c2 == save_file(c1, in) IN Return(c2, ~c2.modified)
              ELSE Return(c1, TRUE)
    ELSE Return(c, TRUE)

\* check_unsaved_changes (the same code in the three programs)
check_unsaved_changes(c, in) ==
    IF c.modified
    THEN LET c1 == Log(c, "askyesnocancel", in.response) IN
         IF in.response = "cancel" THEN Return(c1, FALSE)
         ELSE IF in.response = "yes"
              THEN LET c2 == save_file(c1, in) IN Return(c2, ~c2.modified)
              ELSE Return(edit_modified(c1, FALSE), TRUE)
    ELSE Return(c, TRUE)

\* ------------------------------------------------------------------- new
\* new_file as it would be if it ignored what the gate returned.
new_file_ignores_gate(c, in) ==
    LET g == check_unsaved_changes(c, in) IN
    [text_delete(g) EXCEPT !.current_file = None]

\* new_file as it would be if it emptied the widget before it asked.
new_file_clears_first(c, in) ==
    LET g == check_unsaved_changes(text_delete(c), in) IN
    IF g.gate.ret THEN [g EXCEPT !.current_file = None] ELSE g

\* new_file (the same in the three programs, up to status and focus updates)
new_file(c, in) ==
    LET g == check_unsaved_changes(c, in) IN
    IF g.gate.ret
    THEN LET n == [text_delete(g) EXCEPT !.current_file = None] IN
         IF variant = "Linux" THEN update_line_numbers(n) ELSE n
    ELSE g

\* ------------------------------------------------------------------ open
\* The buffer replaced by a file's content: text.delete, text.insert,
\* self.current_file = path, update_status("Opened ...").
replace_buffer(c, path, content) ==
    Log([text_insert(text_delete(c), content) EXCEPT
            !.current_file = path, !.persisted = content],
        "opened", path)

\* open_file of Windows.py as it would be if it emptied the widget before it
\* read the file.
open_file_windows_clears_first(c, in) ==
    LET g == check_unsaved_changes(c, in) IN
    IF g.gate.ret
    THEN LET d == Log(g, "askopenfilename", in.open_path)
             path == in.open_path
         IN  IF path # NoPath
             THEN LET r == open_read(text_delete(d), path, "utf-8", in) IN
                  IF r.exc THEN showerror(r)
                  ELSE replace_buffer(r, path, file_text("utf-8", r.fs[path]))
             ELSE d
    ELSE g

\* NotepadApp.open_file (Windows.py): UTF-8 only; the modified flag is not reset.
open_file_windows(c, in) ==
    LET g == check_unsaved_changes(c, in) IN
    IF g.gate.ret
    THEN LET d == Log(g, "askopenfilename", in.open_path)
             path == in.open_path
         IN  IF path # NoPath
             THEN LET r == open_read(d, path, "utf-8", in) IN
                  IF r.exc THEN showerror(r)
                  ELSE replace_buffer(r, path, file_text("utf-8", r.fs[path]))
             ELSE d
    ELSE g

\* NotepadApp.open_file (macos.py): UTF-8, then latin-1 on UnicodeDecodeError;
\* both branches end with text.edit_modified(False).
open_file_macos(c, in) ==
    LET g == check_unsaved_changes(c, in) IN
    IF g.gate.ret
    THEN LET d == Log(g, "askopenfilename", in.open_path)
             path == in.open_path
         IN  IF path # NoPath
             THEN LET r == open_read(d, path, "utf-8", in) IN
                  IF ~r.exc
                  THEN edit_modified(
                           replace_buffer(r, path, file_text("utf-8", r.fs[path])),
                           FALSE)
                  ELSE IF ~can_open(d, path, in) THEN showerror(r)
                  ELSE LET r2 == open_read([r EXCEPT !.exc = FALSE], path,
                                           "latin-1", in)
                       IN  IF ~r2.exc
                           THEN edit_modified(
                                    replace_buffer(r2, path,
                                                   file_text("latin-1", r2.fs[path])),
                                    FALSE)
                           ELSE showerror(r2)
             ELSE d
    ELSE g

\* load_file as it would be with cp1251 probed before UTF-8.
linux_encodings_cp1251_first == <<"cp1251", "utf-8", "iso-8859-1">>

\* for encoding in ['utf-8', 'cp1251', 'iso-8859-1']
linux_encodings == <<"utf-8", "cp1251", "iso-8859-1">>

RECURSIVE load_file_from(_, _, _, _)
\* LinuxNotepad.load_file from the i-th candidate encoding on (the for-else
\* branch, once the list is used up, is logged as "for_else"): the first encoding
\* that decodes is used; add_to_recent_files runs before edit_modified(False), so
\* when it raises the outer except reports it with the buffer already replaced.
load_file_from(c, filepath, i, in) ==
    IF i > Len(linux_encodings) THEN showerror(Log(c, "for_else", ""))
    ELSE LET r == open_read(c, filepath, linux_encodings[i], in) IN
         IF ~r.exc
         THEN LET c1 == [replace_buffer(r, filepath,
                                        file_text(linux_encodings[i], r.fs[filepath]))
                            EXCEPT !.encoding_label = str_upper(linux_encodings[i])]
                  c2 == add_to_recent_files(c1, filepath, in)
              IN  IF c2.exc THEN showerror(c2)
                  ELSE update_line_numbers(edit_modified(c2, FALSE))
         ELSE IF ~can_open(c, filepath, in) THEN showerror(r)
         ELSE load_file_from([r EXCEPT !.exc = FALSE], filepath, i + 1, in)

\* The encodings a load tries, in order: Windows.py reads UTF-8 only, macos.py
\* UTF-8 and then latin-1, linux.py its list.
candidate_encodings(v) ==
    CASE v = "Windows" -> <<"utf-8">>
      [] v = "macOS" -> <<"utf-8", "latin-1">>
      [] OTHER -> linux_encodings

\* LinuxNotepad.load_file
load_file(c, filepath, in) == load_file_from(c, filepath, 1, in)

\* LinuxNotepad.open_file
open_file_linux(c, in) ==
    LET g == check_unsaved_changes(c, in) IN
    IF g.gate.ret
    THEN LET d == Log(g, "askopenfilename", in.open_path) IN
         IF in.open_path # NoPath THEN load_file(d, in.open_path, in) ELSE d
    ELSE g

open_file(c, in) ==
    CASE variant = "Windows" -> open_file_windows(c, in)
      [] variant = "macOS" -> open_file_macos(c, in)
      [] OTHER -> open_file_linux(c, in)

\* LinuxNotepad.open_recent_file: a path that is gone is reported and dropped from
\* the list, recent_files.txt is rewritten and the menu rebuilt; when that write
\* raises, the exception leaves the handler and the menu is not rebuilt.
open_recent_file(c, filepath, in) ==
    LET g == check_unsaved_changes(c, in) IN
    IF g.gate.ret
    THEN IF g.fs[filepath] # Missing
         THEN load_file(g, filepath, in)
         ELSE LET w == Log(g, "showwarning", filepath) IN
              IF list_contains(w.recent_files, filepath)
              THEN LET l == list_remove(w.recent_files, filepath) IN
                   IF in.recent_ok
                   THEN [Log(w, "open_w", RecentFilesFile) EXCEPT
                            !.recent_files = l, !.recent_disk = l, !.menu_recent = l]
                   ELSE [Log(w, "OSError", RecentFilesFile) EXCEPT !.recent_files = l]
              ELSE w
    ELSE g

\* ------------------------------------------------------------------ exit
\* exit_app: root.quit() behind the gate.  The Linux program first writes the
\* current file's path to config.ini; when that raises, quit() is not reached.
exit_app(c, in) ==
    LET g == check_unsaved_changes(c, in) IN
    IF g.gate.ret
    THEN IF variant = "Linux" /\ g.current_file # None /\ ~in.config_ok
         THEN g
         ELSE [Log(g, "quit", "") EXCEPT !.alive = FALSE]
    ELSE g

\* ---------------------------------------------------- Linux: Tools menu
RECURSIVE str_replace_crlf(_)
\* content.replace('\r\n', '\n')
str_replace_crlf(t) ==
    IF t = <<>> THEN <<>>
    ELSE IF Head(t) = CR /\ Len(t) >= 2 /\ t[2] = LF
         THEN <<LF>> \o str_replace_crlf(Tail(Tail(t)))
         ELSE <<Head(t)>> \o str_replace_crlf(Tail(t))

\* .replace('\r', '\n')
str_replace_cr(t) == [i \in DOMAIN t |-> IF t[i] = CR THEN LF ELSE t[i]]

\* convert_line_endings as it would be if it reset the modified flag at its end.
convert_line_endings_resets_flag(c) ==
    LET content == str_replace_cr(str_replace_crlf(text_get(c))) IN
    edit_modified(text_insert(text_delete(c), content), FALSE)

\* LinuxNotepad.convert_line_endings: the whole widget content, final newline
\* included, is converted and inserted again.
convert_line_endings(c) ==
    LET content == str_replace_cr(str_replace_crlf(text_get(c))) IN
    text_insert(text_delete(c), content)

\* The characters str.strip() removes: those str.isspace() is true for.
Whitespace ==
    {9, 10, 11, 12, 13, 28, 29, 30, 31, 32, 133, 160, 5760, 8232, 8233, 8239,
     8287, 12288} \cup (8192..8202)

RECURSIVE str_lstrip(_)
str_lstrip(l) ==
    IF l = <<>> THEN <<>>
    ELSE IF Head(l) \in Whitespace THEN str_lstrip(Tail(l)) ELSE l

RECURSIVE str_rstrip(_)
str_rstrip(l) ==
    IF l = <<>> THEN <<>>
    ELSE IF l[Len(l)] \in Whitespace THEN str_rstrip(SubSeq(l, 1, Len(l) - 1)) ELSE l

\* line.strip()
str_strip(l) == str_rstrip(str_lstrip(l))

RECURSIVE str_split(_, _)
\* content.split(sep): the pieces between the separators, empty ones included.
str_split(t, sep) ==
    IF \E i \in DOMAIN t : t[i] = sep
    THEN LET k == CHOOSE i \in DOMAIN t :
                      t[i] = sep /\ \A j \in 1..(i - 1) : t[j] # sep
         IN  <<SubSeq(t, 1, k - 1)>> \o str_split(SubSeq(t, k + 1, Len(t)), sep)
    ELSE <<t>>

RECURSIVE str_join(_, _)
\* sep.join(lines)
str_join(lines, sep) ==
    IF lines = <<>> THEN <<>>
    ELSE IF Len(lines) = 1 THEN lines[1]
    ELSE lines[1] \o <<sep>> \o str_join(Tail(lines), sep)

\* ' ' * n
spaces(n) == [i \in 1..n |-> 32]

RECURSIVE format_lines_no_floor(_, _)
\* The loop of format_code as it would be without the max(0, ...) of its dedent.
format_lines_no_floor(lines, indent_level) ==
    IF lines = <<>> THEN <<>>
    ELSE LET stripped == str_strip(Head(lines)) IN
         IF stripped # <<>> /\ stripped[Len(stripped)] = 58
         THEN <<spaces(indent_level * 4) \o stripped>>
              \o format_lines_no_floor(Tail(lines), indent_level + 1)
         ELSE IF stripped # <<>> /\ stripped[1] \in {41, 93, 125}
              THEN <<spaces((indent_level - 1) * 4) \o stripped>>
                   \o format_lines_no_floor(Tail(lines), indent_level - 1)
              ELSE <<spaces(indent_level * 4) \o stripped>>
                   \o format_lines_no_floor(Tail(lines), indent_level)

RECURSIVE format_lines(_, _)
\* The loop of format_code over the lines, from indent_level on: a line ending
\* with ':' indents the lines after it, a line starting with ')', ']' or '}' is
\* dedented together with the lines after it.
format_lines(lines, indent_level) ==
    IF lines = <<>> THEN <<>>
    ELSE LET stripped == str_strip(Head(lines)) IN
         IF stripped # <<>> /\ stripped[Len(stripped)] = 58
         THEN <<spaces(indent_level * 4) \o stripped>>
              \o format_lines(Tail(lines), indent_level + 1)
         ELSE IF stripped # <<>> /\ stripped[1] \in {41, 93, 125}
              THEN LET lower == IF indent_level - 1 > 0 THEN indent_level - 1 ELSE 0
                   IN  <<spaces(lower * 4) \o stripped>>
                       \o format_lines(Tail(lines), lower)
              ELSE <<spaces(indent_level * 4) \o stripped>>
                   \o format_lines(Tail(lines), indent_level)

\* LinuxNotepad.format_code
format_code(c) ==
    LET content == text_get(c)
        formatted_text == str_join(format_lines(str_split(content, LF), 0), LF)
    IN  text_insert(text_delete(c), formatted_text)

\* ---------------------------------------------------------- macOS: zoom
RECURSIVE int_str(_)
\* The decimal digits Tk writes a font size with.
int_str(n) ==
    IF n < 10 THEN <<48 + n>> ELSE int_str(n \div 10) \o <<48 + (n % 10)>>

RECURSIVE int_parse(_)
\* int(s) of a string of decimal digits
int_parse(s) ==
    IF s = <<>> THEN 0
    ELSE 10 * int_parse(SubSeq(s, 1, Len(s) - 1)) + (s[Len(s)] - 48)

\* self.text['font'].split(): the font Tk holds as the string "Monaco 11", in
\* two pieces.
font_split(f) == <<f.family, int_str(f.size)>>

\* zoom_in as it would be with the comparison `<= 72`.
zoom_in_past_max(f) ==
    LET current_size == int_parse(font_split(f)[2]) IN
    IF current_size <= 72
    THEN [family |-> "Monaco", size |-> current_size + 1]
    ELSE f

\* NotepadApp.zoom_in
zoom_in(f) ==
    LET current_size == int_parse(font_split(f)[2]) IN
    IF current_size < 72
    THEN [family |-> "Monaco", size |-> current_size + 1]
    ELSE f

\* NotepadApp.zoom_out
zoom_out(f) ==
    LET current_size == int_parse(font_split(f)[2]) IN
    IF current_size > 6
    THEN [family |-> "Monaco", size |-> current_size - 1]
    ELSE f

\* NotepadApp.reset_zoom
reset_zoom(f) == [family |-> "Monaco", size |-> 11]

\* ------------------------------------------------------- the state machine
Snapshot ==
    [text |-> text, current_file |-> current_file, modified |-> modified]

NoPrev ==
    [op |-> "none", writes |-> <<>>, pre |-> [text |-> <<>>, current_file |-> None,
                                               modified |-> FALSE],
     text |-> <<>>, current_file |-> None, modified |-> FALSE]

\* font=... of the Text widget each program creates (the Linux program's family
\* and size are the defaults of its configuration).
default_font(v) ==
    CASE v = "Windows" -> [family |-> "Arial", size |-> 12]
      [] v = "macOS" -> [family |-> "Monaco", size |-> 11]
      [] OTHER -> [family |-> "Monospace", size |-> 12]

\* After __init__: an empty, unmodified buffer with no file.  /tmp/a.txt does not
\* exist yet; /tmp/bad.bin holds one of InitialFiles.  The Linux program has read
\* both paths from recent_files.txt and built its Recent Files menu from them.
Init ==
    /\ variant \in Variants
    /\ text = <<>>
    /\ current_file = None
    /\ modified = FALSE
    /\ \E b \in InitialFiles : fs = [p \in Paths |-> IF p = PathB THEN b ELSE Missing]
    /\ recent_files = IF variant = "Linux" THEN <<PathA, PathB>> ELSE <<>>
    /\ recent_disk = recent_files
    /\ menu_recent = recent_files
    /\ alive = TRUE
    /\ persisted = <<>>
    /\ encoding_label = IF variant = "Linux" THEN "UTF-8" ELSE None
    /\ line_numbers = IF variant = "Linux"
                      THEN update_line_numbers([text |-> <<>>,
                                                line_numbers |-> <<>>]).line_numbers
                      ELSE <<>>
    /\ font = default_font(variant)
    /\ steps = 0
    /\ last = [op |-> "init", arg |-> "", pre |-> Snapshot, gate |-> NoGate,
               ev |-> <<>>, writes |-> <<>>]
    /\ prev = NoPrev

DefaultIn ==
    [response |-> "cancel", save_path |-> NoPath, open_path |-> NoPath,
     write |-> "ok", read_ok |-> TRUE, recent_ok |-> TRUE, config_ok |-> TRUE]

\* Whether recent_files.txt can be written while a handler runs (Linux only).
RecentOutcomes == IF variant = "Linux" THEN BOOLEAN ELSE {TRUE}

\* The inputs save_as_file consumes: the chooser's answer and, with a path
\* chosen, the outcome of the write.
SaveAsInputs ==
    {DefaultIn} \cup
    {[DefaultIn EXCEPT !.save_path = p, !.write = w] :
        p \in Paths, w \in WriteOutcomes}

\* The inputs save_file consumes: the outcome of the write with a current file,
\* save_as_file's without.
SaveInputs ==
    IF current_file # None
    THEN {[DefaultIn EXCEPT !.write = w] : w \in WriteOutcomes}
    ELSE SaveAsInputs

\* The inputs the gate consumes: the answer to the prompt when the buffer is
\* modified, and the save's inputs when the answer is Yes.
GateInputs ==
    IF modified
    THEN {[DefaultIn EXCEPT !.response = r] : r \in {"no", "cancel"}}
         \cup {[i EXCEPT !.response = "yes"] : i \in SaveInputs}
    ELSE {DefaultIn}

\* The successful save of the handler that has just run, kept for the next one.
SaveDone ==
    IF last.op \in {"save_file", "save_as_file"} /\ last.writes # <<>>
       /\ ~list_contains(last.ev, <<"showerror", "">>)
    THEN [op |-> last.op, writes |-> last.writes, pre |-> last.pre, text |-> text,
          current_file |-> current_file, modified |-> modified]
    ELSE NoPrev

\* Handler `op` has run from the current state to context c.
Do(op, arg, c) ==
    /\ alive
    /\ steps < MaxSteps
    /\ steps' = steps + 1
    /\ text' = c.text
    /\ current_file' = c.current_file
    /\ modified' = c.modified
    /\ fs' = c.fs
    /\ recent_files' = c.recent_files
    /\ recent_disk' = c.recent_disk
    /\ menu_recent' = c.menu_recent
    /\ alive' = c.alive
    /\ persisted' = c.persisted
    /\ encoding_label' = c.encoding_label
    /\ line_numbers' = c.line_numbers
    /\ last' = [op |-> op, arg |-> arg, pre |-> Snapshot, gate |-> c.gate,
                ev |-> c.ev, writes |-> c.writes]
    /\ prev' = SaveDone
    /\ UNCHANGED <<variant, font>>

\* A user edit in the Text widget: typing or pasting t at the end of the buffer.
UserInsert ==
    \E t \in TypedTexts :
        Do("edit", "", key_release([Ctx EXCEPT !.text = @ \o t, !.modified = TRUE]))

\* A user edit in the Text widget: selecting everything and deleting it.
UserDelete ==
    /\ text # <<>>
    /\ Do("edit", "", key_release([Ctx EXCEPT !.text = <<>>,
                                              !.modified = TRUE]))

\* Tools > Convert to Linux line endings (Linux program)
ConvertLineEndings ==
    /\ variant = "Linux"
    /\ Do("convert_line_endings", "", convert_line_endings(Ctx))

\* Tools > Format code (Linux program)
FormatCode ==
    /\ variant = "Linux"
    /\ Do("format_code", "", format_code(Ctx))

NewFile ==
    \E g \in GateInputs, r \in RecentOutcomes :
        Do("new_file", "", new_file(Ctx, [g EXCEPT !.recent_ok = r]))

OpenFile ==
    \E g \in GateInputs, p \in Paths \cup {NoPath}, ok \in BOOLEAN,
       r \in RecentOutcomes :
        Do("open_file", "",
           open_file(Ctx, [g EXCEPT !.open_path = p, !.read_ok = ok,
                                    !.recent_ok = r]))

SaveFile ==
    \E i \in SaveInputs, r \in RecentOutcomes :
        Do("save_file", "", save_file(Ctx, [i EXCEPT !.recent_ok = r]))

SaveAsFile ==
    \E i \in SaveAsInputs, r \in RecentOutcomes :
        Do("save_as_file", "", save_as_file(Ctx, [i EXCEPT !.recent_ok = r]))

ExitApp ==
    \E g \in GateInputs, r \in RecentOutcomes, ok \in BOOLEAN :
        Do("exit_app", "",
           exit_app(Ctx, [g EXCEPT !.recent_ok = r, !.config_ok = ok]))

\* A click on an entry of the Linux program's Recent Files menu.
OpenRecentFile ==
    /\ variant = "Linux"
    /\ \E k \in DOMAIN menu_recent, g \in GateInputs, ok \in BOOLEAN,
          r \in RecentOutcomes :
        Do("open_recent_file", menu_recent[k],
           open_recent_file(Ctx, menu_recent[k],
                            [g EXCEPT !.read_ok = ok, !.recent_ok = r]))

Next ==
    \/ UserInsert
    \/ UserDelete
    \/ NewFile
    \/ OpenFile
    \/ SaveFile
    \/ SaveAsFile
    \/ ExitApp
    \/ OpenRecentFile
    \/ ConvertLineEndings
    \/ FormatCode

Spec == Init /\ [][Next]_vars

\* The encoding probe on its own: the programs started with an arbitrary short
\* file at /tmp/bad.bin, and only files being opened.
InitLoad ==
    /\ variant \in Variants
    /\ text = <<>>
    /\ current_file = None
    /\ modified = FALSE
    /\ \E b \in FileSamples : fs = [p \in Paths |-> IF p = PathB THEN b ELSE Missing]
    /\ recent_files = IF variant = "Linux" THEN <<PathA, PathB>> ELSE <<>>
    /\ recent_disk = recent_files
    /\ menu_recent = recent_files
    /\ alive = TRUE
    /\ persisted = <<>>
    /\ encoding_label = IF variant = "Linux" THEN "UTF-8" ELSE None
    /\ line_numbers = IF variant = "Linux"
                      THEN update_line_numbers([text |-> <<>>,
                                                line_numbers |-> <<>>]).line_numbers
                      ELSE <<>>
    /\ font = default_font(variant)
    /\ steps = 0
    /\ last = [op |-> "init", arg |-> "", pre |-> Snapshot, gate |-> NoGate,
               ev |-> <<>>, writes |-> <<>>]
    /\ prev = NoPrev

NextLoad ==
    \/ OpenFile
    \/ OpenRecentFile

SpecLoad == InitLoad /\ [][NextLoad]_vars

\* The code formatter on its own: the Linux program with an arbitrary short
\* buffer typed in, and only Tools > Format code being used.
InitFormat ==
    /\ variant = "Linux"
    /\ text \in FormatSamples
    /\ current_file = None
    /\ modified = (text # <<>>)
    /\ \E b \in InitialFiles : fs = [p \in Paths |-> IF p = PathB THEN b ELSE Missing]
    /\ recent_files = <<PathA, PathB>>
    /\ recent_disk = recent_files
    /\ menu_recent = recent_files
    /\ alive = TRUE
    /\ persisted = <<>>
    /\ encoding_label = "UTF-8"
    /\ line_numbers = update_line_numbers([text |-> text,
                                           line_numbers |-> <<>>]).line_numbers
    /\ font = default_font(variant)
    /\ steps = 0
    /\ last = [op |-> "init", arg |-> "", pre |-> Snapshot, gate |-> NoGate,
               ev |-> <<>>, writes |-> <<>>]
    /\ prev = NoPrev

NextFormat == FormatCode

SpecFormat == InitFormat /\ [][NextFormat]_vars

\* A View menu command of the macOS program has changed the font of the Text
\* widget from size current_size to f.
Zoom(op, current_size, f) ==
    /\ variant = "macOS"
    /\ alive
    /\ font' = f
    /\ last' = [op |-> op, arg |-> current_size, pre |-> Snapshot, gate |-> NoGate,
                ev |-> <<>>, writes |-> <<>>]
    /\ prev' = NoPrev
    /\ UNCHANGED <<variant, text, current_file, modified, fs, recent_files,
                   recent_disk, menu_recent, alive, persisted, encoding_label,
                   line_numbers, steps>>

\* View > Zoom In
ZoomIn == Zoom("zoom_in", font.size, zoom_in(font))

\* View > Zoom Out
ZoomOut == Zoom("zoom_out", font.size, zoom_out(font))

\* View > Reset Zoom
ResetZoom == Zoom("reset_zoom", font.size, reset_zoom(font))

\* The zoom commands on their own: the macOS program as it starts.
InitZoom == Init /\ variant = "macOS"

NextZoom ==
    \/ ZoomIn
    \/ ZoomOut
    \/ ResetZoom

SpecZoom == InitZoom /\ [][NextZoom]_vars

\* ------------------------------------------------ reading the last handler
\* The last handler made a collaborator call of this kind.
HasEvent(kind) == \E i \in DOMAIN last.ev : last.ev[i][1] = kind

\* The gate made a collaborator call of this kind before it returned.
GateEvent(kind) == \E i \in 1..last.gate.nev : last.ev[i][1] = kind

\* Opening or writing this path raised OSError in the last handler.
Raised(path) == \E i \in DOMAIN last.ev : last.ev[i] = <<"OSError", path>>

\* Opening or writing this path raised OSError before the gate returned, that
\* is, in the save the gate called.
GateRaised(path) ==
    \E i \in 1..last.gate.nev : last.ev[i] = <<"OSError", path>>

\* The gate showed its prompt and the user gave this answer.
Answer(r) ==
    /\ last.gate.called
    /\ last.gate.nev >= 1
    /\ last.ev[1] = <<"askyesnocancel", r>>

\* The gate left buffer and current_file as they were before the handler.
GateKeptDocument ==
    /\ last.gate.text = last.pre.text
    /\ last.gate.current_file = last.pre.current_file

\* The collaborator calls and exceptions after the gate returned.
AfterGate == (last.gate.nev + 1)..Len(last.ev)

\* The session is as the gate left it.
AsGateLeftIt ==
    /\ text = last.gate.text
    /\ current_file = last.gate.current_file
    /\ modified = last.gate.modified

\* The path of the file the last handler loaded into the buffer without an error
\* dialog afterwards; NoPath when it loaded none.
LoadedPath ==
    IF \E i \in DOMAIN last.ev :
          /\ last.ev[i][1] = "opened"
          /\ \A j \in (i + 1)..Len(last.ev) : last.ev[j][1] # "showerror"
    THEN (CHOOSE e \in {last.ev[i] : i \in DOMAIN last.ev} : e[1] = "opened")[2]
    ELSE NoPath

\* ------------------------------------------------------------------ claims

\* C1: whenever the modified flag is false, check_unsaved_changes returns True
\* without any collaborator call (no prompt, no file dialog, no file opened for
\* writing, no message box) and leaves buffer, current_file and the flag alone.
C1_CleanGateProceeds ==
    (last.gate.called /\ ~last.pre.modified) =>
        /\ last.gate.ret
        /\ last.gate.nev = 0
        /\ GateKeptDocument
        /\ ~last.gate.modified

\* C1 witness: Exit on a clean session that has a file and a non-empty buffer.
C1_Witness ==
    /\ last.op = "exit_app"
    /\ last.gate.called
    /\ ~last.pre.modified
    /\ last.pre.current_file # None
    /\ last.pre.text # <<>>
    /\ last.gate.ret

\* C2: on a modified buffer, the answer Cancel makes check_unsaved_changes return
\* False with buffer, current_file and the (still true) flag as before the call,
\* and no file opened for writing.
C2_CancelAborts ==
    (last.pre.modified /\ Answer("cancel")) =>
        /\ ~last.gate.ret
        /\ GateKeptDocument
        /\ last.gate.modified
        /\ ~GateEvent("open_w")
        /\ last.gate.nev = 1

\* C2 witness: Cancel answered to the prompt of New on a buffer holding "hello".
C2_Witness ==
    /\ last.op = "new_file"
    /\ last.pre.modified
    /\ last.pre.text = Hello
    /\ Answer("cancel")
    /\ ~last.gate.ret

\* C3: when the gate returns False, the calling handler does nothing further: the
\* state is the one the gate returned in, no collaborator is called after the
\* gate (no file-open dialog, no quit) and the program keeps running.
C3_AbortStopsCaller ==
    (last.gate.called /\ ~last.gate.ret) =>
        /\ text = last.gate.text
        /\ current_file = last.gate.current_file
        /\ modified = last.gate.modified
        /\ Len(last.ev) = last.gate.nev
        /\ ~HasEvent("askopenfilename")
        /\ ~HasEvent("quit")
        /\ alive

\* C3 witness: New on a non-empty modified buffer, aborted by a save that failed.
C3_Witness ==
    /\ last.op = "new_file"
    /\ last.gate.called
    /\ ~last.gate.ret
    /\ Answer("yes")
    /\ GateEvent("showerror")
    /\ text # <<>>

\* C4 (as claimed): after the answer Yes, a save that showed an error dialog or
\* whose save-as dialog was dismissed makes the gate return False with the session
\* still modified and buffer and current_file unchanged; the gate returns True
\* only if the save succeeded.
C4_SaveAnswer ==
    (last.pre.modified /\ Answer("yes")) =>
        /\ (GateEvent("showerror")
              \/ \E i \in 1..last.gate.nev : last.ev[i] = <<"asksaveasfilename", NoPath>>)
           => (~last.gate.ret /\ last.gate.modified /\ GateKeptDocument)
        /\ last.gate.ret => (last.writes # <<>> /\ ~GateEvent("showerror"))

\* C5: on a modified buffer, the answer No makes the flag false at once, opens no
\* file for writing, leaves buffer and current_file to the caller, and returns
\* True, so that the caller proceeds (New clears, Open asks for a file, Exit quits
\* unless the Linux program's config.ini write raised).
C5_DiscardProceeds ==
    (last.pre.modified /\ Answer("no")) =>
        /\ last.gate.ret
        /\ ~last.gate.modified
        /\ GateKeptDocument
        /\ last.gate.nev = 1
        /\ last.writes = <<>>
        /\ last.op = "new_file" => (text = <<>> /\ current_file = None)
        /\ last.op = "open_file" =>
              (Len(last.ev) > 1 /\ last.ev[2][1] = "askopenfilename")
        /\ last.op = "exit_app" =>
              (~alive \/ (variant = "Linux" /\ current_file # None))

\* C5 witness: No answered to the prompt of Exit on a buffer holding "hello".
C5_Witness ==
    /\ last.op = "exit_app"
    /\ last.pre.modified
    /\ last.pre.text = Hello
    /\ Answer("no")
    /\ ~alive

\* C6 (as claimed): right after a handler has loaded a file into the buffer, the
\* modified flag is false.
C6_LoadedIsClean == LoadedPath # NoPath => ~modified

\* C7 (as claimed): whenever new_file proceeds, the session it leaves is empty:
\* empty buffer, no current file, modified flag false.
C7_NewIsFresh ==
    (last.op = "new_file" /\ last.gate.ret) =>
        /\ text = <<>>
        /\ current_file = None
        /\ ~modified

\* C8 (as claimed): new session, "hello" typed, New, answer Yes, save-as chooser
\* returns /tmp/a.txt: the file holds exactly "hello", the gate returns with
\* current_file = /tmp/a.txt and the flag false, and New leaves an empty session.
C8_HelloTrace ==
    (/\ last.op = "new_file"
     /\ last.pre = [text |-> Hello, current_file |-> None, modified |-> TRUE]
     /\ Answer("yes")
     /\ Len(last.ev) >= 2
     /\ last.ev[2] = <<"asksaveasfilename", PathA>>
     /\ last.writes # <<>>
     /\ ~HasEvent("showerror"))
    =>
        /\ last.writes = << <<PathA, utf8_encode(Hello)>> >>
        /\ fs[PathA] = utf8_encode(Hello)
        /\ last.gate.current_file = PathA
        /\ ~last.gate.modified
        /\ last.gate.ret
        /\ text = <<>>
        /\ current_file = None
        /\ ~modified

\* C9 (as claimed): a text saved to a path and then loaded from that same path is
\* in the buffer exactly as it was saved.
C9_RoundTrip ==
    (/\ prev.op \in {"save_file", "save_as_file"}
     /\ LoadedPath # NoPath
     /\ LoadedPath = prev.writes[1][1])
    => text = prev.text

\* C10: save_file called twice in a row on a session with a current file, no write
\* failing: the second call writes the same bytes to the same path, the flag is
\* false after each call, and buffer and current_file are unchanged by both.
C10_SaveIdempotent ==
    (/\ last.op = "save_file"
     /\ prev.op = "save_file"
     /\ prev.pre.current_file # None
     /\ last.writes # <<>>)
    =>
        /\ last.writes = prev.writes
        /\ ~prev.modified
        /\ ~modified
        /\ prev.text = prev.pre.text
        /\ text = prev.text
        /\ prev.current_file = prev.pre.current_file
        /\ current_file = prev.current_file
        /\ Len(last.writes) = 1
        /\ last.writes[1][1] = current_file

\* C10 witness: the second of two saves in a row of a non-empty buffer.
C10_Witness ==
    /\ last.op = "save_file"
    /\ prev.op = "save_file"
    /\ prev.pre.current_file # None
    /\ prev.pre.modified
    /\ last.writes # <<>>
    /\ text # <<>>

\* C11 (as claimed): in every reachable state the modified flag is true exactly
\* when the buffer differs from the content last loaded from or saved to storage
\* (the initial empty content while nothing has been loaded or saved).
C11_DirtyIffDiffers == modified <=> (text # persisted)

\* C12: when save_file runs with a current file and the write raises, an error
\* dialog is shown, nothing counts as written, and buffer, current_file and the
\* modified flag are as before the call; when the gate made that call (answer
\* Yes), it returns False with the session still modified and its caller leaves
\* the session alone.
C12_SaveFailure ==
    /\ (/\ last.op = "save_file"
        /\ last.pre.current_file # None
        /\ Raised(last.pre.current_file))
       => /\ HasEvent("showerror")
          /\ last.writes = <<>>
          /\ Snapshot = last.pre
    /\ (/\ last.pre.modified
        /\ Answer("yes")
        /\ last.pre.current_file # None
        /\ GateRaised(last.pre.current_file))
       => /\ GateEvent("showerror")
          /\ last.writes = <<>>
          /\ ~last.gate.ret
          /\ last.gate.modified
          /\ GateKeptDocument
          /\ Snapshot = last.pre
          /\ alive

\* C12 witness: Exit on a modified buffer with a current file, answer Yes, the
\* write raises after the file was opened.
C12_Witness ==
    /\ last.op = "exit_app"
    /\ last.pre.modified
    /\ last.pre.current_file # None
    /\ last.pre.text # <<>>
    /\ Answer("yes")
    /\ GateRaised(last.pre.current_file)
    /\ GateEvent("open_w")
    /\ alive

\* C13 (as claimed): whenever save_file or save_as_file has shown its error
\* dialog, the session is as before the call; whenever the load of open_file or
\* open_recent_file has shown its error dialog, the session is as it was when the
\* load began (as the gate left it).
C13_FailClosed ==
    /\ (last.op \in {"save_file", "save_as_file"} /\ HasEvent("showerror"))
       => Snapshot = last.pre
    /\ (/\ last.op \in {"open_file", "open_recent_file"}
        /\ last.gate.ret
        /\ \E i \in AfterGate : last.ev[i][1] = "showerror")
       => AsGateLeftIt

\* C14: when the save-as chooser returns no path, in save_as_file called directly,
\* through save_file without a current file, or through the gate's save, then no
\* file is opened for writing, no error dialog is shown, and buffer, current_file
\* and the modified flag are as before the handler.
C14_SaveAsCancelled ==
    (\E i \in DOMAIN last.ev : last.ev[i] = <<"asksaveasfilename", NoPath>>) =>
        /\ ~HasEvent("open_w")
        /\ ~HasEvent("showerror")
        /\ ~HasEvent("OSError")
        /\ last.writes = <<>>
        /\ Snapshot = last.pre

\* C14 witness: Save on a modified buffer that has no file, chooser dismissed.
C14_Witness ==
    /\ last.op = "save_file"
    /\ last.pre.current_file = None
    /\ last.pre.modified
    /\ last.pre.text # <<>>
    /\ last.ev = << <<"asksaveasfilename", NoPath>> >>

\* The read of the last load raised OSError (missing or unreadable file).
ReadRaised ==
    \E i \in AfterGate : last.ev[i][1] = "OSError" /\ last.ev[i][2] \in Paths

\* Every candidate encoding of the running program raised UnicodeDecodeError.
EncodingExhausted ==
    \A k \in DOMAIN candidate_encodings(variant) :
        \E i \in AfterGate :
            last.ev[i] = <<"UnicodeDecodeError", candidate_encodings(variant)[k]>>

\* C15: when the read of a load raises, or the bytes are invalid in every
\* candidate encoding of the program, the handler ends with an error dialog, no
\* file content reaches the buffer, and buffer, current_file and the modified flag
\* are as they were when the load began.
C15_LoadFailure ==
    (/\ last.op \in {"open_file", "open_recent_file"}
     /\ (ReadRaised \/ EncodingExhausted))
    =>
        /\ last.ev[Len(last.ev)] = <<"showerror", "">>
        /\ ~HasEvent("opened")
        /\ AsGateLeftIt

\* C15 witness: the Windows program opens /tmp/bad.bin, invalid as UTF-8, over a
\* buffer that holds text and has a file.
C15_Witness ==
    /\ last.op = "open_file"
    /\ last.arg = ""
    /\ EncodingExhausted
    /\ \E i \in AfterGate : last.ev[i] = <<"askopenfilename", PathB>>
    /\ text # <<>>
    /\ current_file = PathA

\* The order of encodings C16 states for each program.
ClaimedOrder ==
    CASE variant = "Linux" -> <<"utf-8", "cp1251", "iso-8859-1">>
      [] variant = "macOS" -> <<"utf-8", "latin-1">>
      [] OTHER -> <<"utf-8">>

\* The encodings the last handler opened the file with, in order.
ReadAttempts ==
    LET opens == SelectSeq(last.ev, LAMBDA e : e[1] = "open_r")
    IN  [i \in DOMAIN opens |-> opens[i][2]]

\* C16: a load that succeeds has tried the encodings in the stated order (Linux:
\* utf-8, cp1251, iso-8859-1; macOS: utf-8, latin-1) and stopped at the first one
\* under which the file's bytes are valid: every earlier one is invalid for these
\* bytes and raised UnicodeDecodeError, the buffer holds the bytes decoded with
\* the one it stopped at, and bytes valid as UTF-8 are read as UTF-8.
C16_FirstValidEncoding ==
    (last.op \in {"open_file", "open_recent_file"} /\ LoadedPath # NoPath) =>
        LET tried == ReadAttempts
            k == Len(tried)
            b == fs[LoadedPath]
        IN  /\ k >= 1
            /\ k <= Len(ClaimedOrder)
            /\ tried = SubSeq(ClaimedOrder, 1, k)
            /\ can_decode(ClaimedOrder[k], b)
            /\ \A j \in 1..(k - 1) :
                   /\ ~can_decode(ClaimedOrder[j], b)
                   /\ \E i \in DOMAIN last.ev :
                          last.ev[i] = <<"UnicodeDecodeError", ClaimedOrder[j]>>
            /\ text = file_text(ClaimedOrder[k], b)
            /\ utf8_valid(b) => k = 1

\* C16 witness: the Linux program reads a file that is invalid as UTF-8 and valid
\* in cp1251 with cp1251, its second candidate.
C16_Witness ==
    /\ variant = "Linux"
    /\ LoadedPath = PathB
    /\ ReadAttempts = <<"utf-8", "cp1251">>
    /\ ~utf8_valid(fs[PathB])
    /\ text # <<>>

\* The save-as the last handler made to this path went through: the chooser
\* returned it, the file was written, and neither an exception nor an error dialog
\* followed before save_as_file ended (at the gate's return when the gate made the
\* call, at the handler's end otherwise).
SaveAsSucceeded(path) ==
    LET end == IF last.gate.called THEN last.gate.nev ELSE Len(last.ev) IN
    \E i \in 1..end :
        /\ last.ev[i] = <<"asksaveasfilename", path>>
        /\ \E j \in (i + 1)..end : last.ev[j] = <<"open_w", path>>
        /\ \A j \in (i + 1)..end : last.ev[j][1] \notin {"OSError", "showerror"}

\* C17 (as claimed): a handler changes current_file only in these ways: to the
\* path of a file it loaded successfully, to the path of a save-as that succeeded,
\* or, in new_file behind the gate, to None.
C17_PathChanges ==
    current_file # last.pre.current_file =>
        \/ /\ current_file = None
           /\ last.op = "new_file"
           /\ last.gate.ret
        \/ /\ current_file # None
           /\ \/ LoadedPath = current_file
              \/ SaveAsSucceeded(current_file)

\* C18: when save_as_file has a path from the chooser and the write succeeds, the
\* file at that path holds the UTF-8 bytes of text.get(1.0, tk.END), current_file
\* is that path, the modified flag is false and the buffer is unchanged; a
\* save_file that follows a successful save_as_file does not ask the chooser and
\* opens no other path than that one for writing.
C18_SaveAsThenSave ==
    /\ (last.op = "save_as_file" /\ last.writes # <<>>) =>
          LET p == last.ev[1][2]
              bytes == file_bytes(last.pre.text \o <<LF>>, variant)
          IN  /\ last.ev[1][1] = "asksaveasfilename"
              /\ p # NoPath
              /\ last.writes = << <<p, bytes>> >>
              /\ fs[p] = bytes
              /\ current_file = p
              /\ ~modified
              /\ text = last.pre.text
    /\ (last.op = "save_file" /\ prev.op = "save_as_file") =>
          /\ ~HasEvent("asksaveasfilename")
          /\ \A i \in DOMAIN last.ev :
                 /\ last.ev[i][1] \in {"open_w", "OSError", "showerror"}
                 /\ last.ev[i][1] # "showerror" => last.ev[i][2] = prev.current_file
          /\ last.writes # <<>> =>
                 last.writes = << <<prev.current_file, prev.writes[1][2]>> >>
          /\ current_file = prev.current_file
          /\ prev.current_file = prev.writes[1][1]

\* C18 witness: Save As of a non-empty buffer to /tmp/a.txt, then Save, which
\* writes /tmp/a.txt again.
C18_Witness ==
    /\ last.op = "save_file"
    /\ prev.op = "save_as_file"
    /\ prev.current_file = PathA
    /\ prev.pre.current_file = None
    /\ last.writes # <<>>
    /\ text # <<>>

\* The handlers that discard the buffer or end the program.
Destructive == {"new_file", "open_file", "open_recent_file", "exit_app"}

\* How many times the last handler showed the save/discard/cancel prompt.
PromptCount ==
    Len(SelectSeq(last.ev, LAMBDA e : e[1] = "askyesnocancel"))

\* C19: New, Open, Open-Recent and Exit on a modified buffer show the prompt
\* exactly once, as their first collaborator call; the answer is Yes, No or
\* Cancel; the buffer is untouched while the gate runs; every file-open dialog,
\* read, load and quit comes after the gate has returned; and each answer takes
\* its own branch (Cancel: return False at once; No: flag cleared, return True at
\* once; Yes: a save is attempted).
C19_PromptOnceFirst ==
    (last.op \in Destructive /\ last.pre.modified) =>
        /\ last.gate.called
        /\ last.gate.nev >= 1
        /\ last.ev[1][1] = "askyesnocancel"
        /\ last.ev[1][2] \in Responses
        /\ PromptCount = 1
        /\ last.gate.text = last.pre.text
        /\ \A i \in 1..last.gate.nev :
               last.ev[i][1] \notin {"askopenfilename", "open_r", "opened",
                                     "showwarning", "quit"}
        /\ Answer("cancel") => (~last.gate.ret /\ last.gate.nev = 1)
        /\ Answer("no") => (last.gate.ret /\ ~last.gate.modified /\ last.gate.nev = 1)
        /\ Answer("yes") =>
               /\ last.gate.nev >= 2
               /\ last.ev[2][1] \in {"asksaveasfilename", "open_w", "OSError"}

\* C19 witness: a Recent Files entry clicked on a modified buffer, answer No, the
\* file loaded afterwards.
C19_Witness ==
    /\ last.op = "open_recent_file"
    /\ last.pre.modified
    /\ last.pre.text # <<>>
    /\ Answer("no")
    /\ LoadedPath # NoPath

RecentWrites ==
    {i \in DOMAIN last.ev :
        last.ev[i] \in {<<"open_w", RecentFilesFile>>, <<"OSError", RecentFilesFile>>}}

\* The last handler called add_to_recent_files (it wrote recent_files.txt, or
\* failed to, and did not take open_recent_file's removal branch).
AddedToRecent == RecentWrites # {} /\ ~HasEvent("showwarning")

\* The path add_to_recent_files was last called with: that of the load or save-as
\* it ended.
AddedPath ==
    LET w == CHOOSE i \in RecentWrites : \A k \in RecentWrites : k <= i
        from == {j \in 1..(w - 1) : last.ev[j][1] \in {"opened", "asksaveasfilename"}}
        j == CHOOSE j \in from : \A k \in from : k <= j
    IN  last.ev[j][2]

\* C21 (as claimed): in the Linux program the recent-files list has no duplicate
\* path and at most max_files entries, the path add_to_recent_files was last
\* called with is its first entry, and recent_files.txt holds exactly the list,
\* in the same order.
C21_RecentList ==
    variant = "Linux" =>
        /\ \A i, j \in DOMAIN recent_files :
               recent_files[i] = recent_files[j] => i = j
        /\ Len(recent_files) <= max_files
        /\ AddedToRecent => (recent_files # <<>> /\ recent_files[1] = AddedPath)
        /\ recent_disk = recent_files

\* C22 (as claimed): after the answer No in the prompt of open_file or
\* open_recent_file, when the handler then loads nothing into the buffer, the
\* buffer it kept is still marked modified.
C22_DiscardKeepsDirty ==
    (/\ last.op \in {"open_file", "open_recent_file"}
     /\ last.pre.modified
     /\ Answer("no")
     /\ ~HasEvent("opened"))
    => (text = last.pre.text /\ modified)

\* C23 (as claimed): root.quit() is called by exit_app only, behind the gate, and
\* only with the modified flag false, for one of three reasons: the session was
\* clean when exit_app began, the user answered No, or the user answered Yes and
\* the save succeeded (it wrote the document and reported no error).
C23_QuitOnlyClean ==
    /\ ~alive => HasEvent("quit")
    /\ HasEvent("quit") =>
          /\ last.op = "exit_app"
          /\ last.gate.called
          /\ last.gate.ret
          /\ last.ev[Len(last.ev)] = <<"quit", "">>
          /\ \A i \in 1..last.gate.nev : last.ev[i][1] # "quit"
          /\ ~modified
          /\ \/ ~last.pre.modified
             \/ Answer("no")
             \/ /\ Answer("yes")
                /\ last.writes # <<>>
                /\ ~HasEvent("showerror")

\* The last handler tried to read a file (the gate proceeded and a path was
\* given).
LoadAttempted == \E i \in AfterGate : last.ev[i][1] = "open_r"

\* C24: in the Linux and macOS programs no load exhausts the candidate encodings:
\* every load whose read does not raise OSError decodes the file and puts it in
\* the buffer, with the last candidate if no earlier one fits, and the Linux
\* for-else branch is never taken; a load that is refused for its encoding is a
\* load of the Windows program.
C24_NeverExhausted ==
    /\ (variant \in {"Linux", "macOS"} /\ LoadAttempted) =>
          /\ ~EncodingExhausted
          /\ ~HasEvent("for_else")
          /\ ~ReadRaised =>
                /\ HasEvent("opened")
                /\ Len(ReadAttempts) <= Len(candidate_encodings(variant))
                /\ current_file \in Paths
                /\ text = file_text(ReadAttempts[Len(ReadAttempts)], fs[current_file])
    /\ (LoadAttempted /\ EncodingExhausted) =>
          (variant = "Windows" /\ ~HasEvent("opened"))

\* C24 witness: the Linux program loads a file that neither UTF-8 nor cp1251
\* decodes; iso-8859-1, its last candidate, does.
C24_Witness ==
    /\ variant = "Linux"
    /\ LoadAttempted
    /\ ReadAttempts = <<"utf-8", "cp1251", "iso-8859-1">>
    /\ HasEvent("opened")
    /\ ~cp1251_valid(fs[PathB])
    /\ current_file = PathB

\* C25 (as claimed): when open_recent_file, the gate having returned True, finds
\* that the path does not exist, it shows a warning, the path is in neither
\* recent_files nor recent_files.txt afterwards, the menu shows the list as it
\* now is, no read is attempted, and buffer and current_file are as the gate left
\* them.
C25_MissingRecent ==
    (last.op = "open_recent_file" /\ last.gate.ret /\ HasEvent("showwarning")) =>
        /\ \E i \in AfterGate : last.ev[i] = <<"showwarning", last.arg>>
        /\ ~list_contains(recent_files, last.arg)
        /\ ~list_contains(recent_disk, last.arg)
        /\ menu_recent = recent_files
        /\ ~LoadAttempted
        /\ ~HasEvent("opened")
        /\ text = last.gate.text
        /\ current_file = last.gate.current_file

\* The last handler wrote the document and reported no failure.
SaveSucceeded ==
    /\ last.writes # <<>>
    /\ ~HasEvent("showerror")
    /\ ~HasEvent("OSError")

\* C26 (as claimed): in the Linux program the encoding label names the encoding
\* the document was last read or written with: the accepted encoding after a
\* load, UTF-8 after a successful save, UTF-8 after New.
C26_EncodingLabel ==
    variant = "Linux" =>
        /\ (last.op \in {"open_file", "open_recent_file"} /\ HasEvent("opened")) =>
              encoding_label = str_upper(ReadAttempts[Len(ReadAttempts)])
        /\ (last.op \in {"save_file", "save_as_file"} /\ SaveSucceeded) =>
              encoding_label = "UTF-8"
        /\ (last.op = "new_file" /\ last.gate.ret) => encoding_label = "UTF-8"

\* The handler ended with a call of update_line_numbers: the construction of the
\* window, a key release, new_file behind the gate, a load that went through.
LineNumbersUpdated ==
    \/ last.op \in {"init", "edit"}
    \/ last.op = "new_file" /\ last.gate.ret
    \/ /\ last.op \in {"open_file", "open_recent_file"}
       /\ HasEvent("opened")
       /\ ~HasEvent("showerror")

\* The number of lines of a text: one more than its newlines.
LineCount(t) == Cardinality({i \in DOMAIN t : t[i] = LF}) + 1

\* C27 (as claimed): after each call of update_line_numbers the gutter shows the
\* numbers 1..n, n the number of lines of the buffer; an empty buffer shows
\* exactly line 1.
C27_GutterCount ==
    (variant = "Linux" /\ LineNumbersUpdated) =>
        /\ Len(line_numbers) = LineCount(text)
        /\ \A i \in DOMAIN line_numbers : line_numbers[i] = i
        /\ text = <<>> => line_numbers = <<1>>

\* The text with every CRLF and every lone CR turned into one LF, scanning from
\* the left.
RECURSIVE Normalized(_)
Normalized(t) ==
    IF t = <<>> THEN <<>>
    ELSE IF t[1] = CR
         THEN IF Len(t) >= 2 /\ t[2] = LF
              THEN <<LF>> \o Normalized(SubSeq(t, 3, Len(t)))
              ELSE <<LF>> \o Normalized(Tail(t))
         ELSE <<t[1]>> \o Normalized(Tail(t))

\* C28 (as claimed): convert_line_endings leaves no CR in the buffer, turns every
\* CRLF and every lone CR into one LF, appends and removes nothing, and a second
\* call leaves the buffer as the first did.
C28_ConvertLineEndings ==
    last.op = "convert_line_endings" =>
        /\ \A i \in DOMAIN text : text[i] # CR
        /\ text = Normalized(last.pre.text)
        /\ convert_line_endings(Ctx).text = text

\* The number of spaces a line starts with.
LeadingSpaces(l) ==
    IF \A i \in DOMAIN l : l[i] = 32 THEN Len(l)
    ELSE (CHOOSE i \in DOMAIN l : l[i] # 32 /\ \A j \in 1..(i - 1) : l[j] = 32) - 1

\* C29: format_code turns the lines of the buffer into as many lines, each its
\* stripped text behind 4 x level spaces, where the level is never negative,
\* starts at 0, is one more than the line before's after a line ending with ':',
\* is one less (but not below 0) on a line that does not end with ':' and starts
\* with ')', ']' or '}', and is otherwise that of the line before.
C29_FormatIndent ==
    last.op = "format_code" =>
        LET lines == str_split(last.pre.text \o <<LF>>, LF)
            formatted_lines == str_split(text, LF)
            stripped(i) == str_strip(lines[i])
            colon(i) == stripped(i) # <<>> /\ stripped(i)[Len(stripped(i))] = 58
            closer(i) == /\ ~colon(i)
                         /\ stripped(i) # <<>>
                         /\ stripped(i)[1] \in {41, 93, 125}
            shown(i) == LeadingSpaces(formatted_lines[i]) \div 4
            before(i) == IF i = 1 THEN 0
                         ELSE shown(i - 1) + (IF colon(i - 1) THEN 1 ELSE 0)
        IN  /\ Len(formatted_lines) = Len(lines)
            /\ \A i \in DOMAIN lines :
                  /\ formatted_lines[i] = spaces(4 * shown(i)) \o stripped(i)
                  /\ shown(i) >= 0
                  /\ shown(i) = IF closer(i)
                                THEN (IF before(i) > 0 THEN before(i) - 1 ELSE 0)
                                ELSE before(i)

\* C29 witness: a buffer whose first line closes a bracket at level 0 and whose
\* second line ends with ':' has been formatted, so that the text after it is
\* indented by one level.
C29_Witness ==
    /\ last.op = "format_code"
    /\ Len(last.pre.text) >= 3
    /\ SubSeq(last.pre.text, 1, 3) = <<125, LF, 58>>
    /\ SubSeq(text, 1, 3) = <<125, LF, 58>>
    /\ LeadingSpaces(str_split(text, LF)[3]) = 4

\* A step of a zoom command changes the font size as C30 says.
ZoomAsClaimed ==
    /\ (last'.op = "zoom_in") =>
           (font'.size = IF font.size = 72 THEN 72 ELSE font.size + 1)
    /\ (last'.op = "zoom_out") =>
           (font'.size = IF font.size = 6 THEN 6 ELSE font.size - 1)
    /\ (last'.op = "reset_zoom") => (font'.size = 11)

\* C30: the font size of the macOS program is always within 6..72; zoom_in adds
\* 1 to it except at 72, zoom_out takes 1 from it except at 6, where they leave
\* it alone, and reset_zoom sets it to 11.
C30_ZoomRange ==
    /\ [](font.size \in 6..72)
    /\ [][ZoomAsClaimed]_vars

\* C30 witness: zoom_in was called at size 72.
C30_Witness ==
    /\ last.op = "zoom_in"
    /\ last.arg = 72
    /\ font.size = 72

====
